---------------------------- MODULE Spec2Model ----------------------------
(***************************************************************************)
(* Leave management core of the attendance backend: the balance ledger     *)
(* (leave_balance rows), the leave application lifecycle (apply, edit,     *)
(* approve/reject, cancel) and the role gate in front of it.               *)
(*                                                                         *)
(* Dates are day numbers; a calendar year is DaysPerYear consecutive days. *)
(* Decimal day counts are integers (the code only ever adds and subtracts  *)
(* whole day counts).  HTTP failures are recorded in `last` under the      *)
(* names of the error taxonomy:                                            *)
(*   403 -> Forbidden, 404 -> NotFound, 422 -> ValidationError,            *)
(*   400 "Cannot modify/cancel/update ... status" -> InvalidStateTransition*)
(*   400 "Insufficient leave balance" -> InsufficientBalance,              *)
(*   unhandled exception (500) -> InternalError.                           *)
(***************************************************************************)
EXTENDS Integers, Sequences, FiniteSets, TLC

\* ---------------------------------------------------------------- bounds
NumEmp == 3           \* employees 1..NumEmp (1 admin, 2 manager, rest staff)
MaxApps == 2          \* leave applications ever submitted
MaxDay == 2           \* dates are the days 1..MaxDay
DaysPerYear == 1      \* length of a calendar year, in days
Allocation == 2       \* max_days_per_year of the seeded leave type

\* ------------------------------------------------------------- constants
NULL == 0             \* SQL NULL / Python None for ids and timestamps

Emp == 1..NumEmp
Dates == 1..MaxDay

\* app/models/employee.py UserRole
ADMIN == "admin"
MANAGER == "manager"
EMPLOYEE == "employee"
UserRole == {ADMIN, MANAGER, EMPLOYEE}

\* app/models/leave.py LeaveStatus
PENDING == "pending"
APPROVED == "approved"
REJECTED == "rejected"
CANCELLED == "cancelled"
LeaveStatus == {PENDING, APPROVED, REJECTED, CANCELLED}

\* leave_types table: one seeded type (id 2 is an id with no row)
LeaveTypes == {1}

\* Python None for a text field
NONE == "none"

VARIABLES
    role,           \* employees.role, per employee
    manager_id,     \* employees.manager_id, per employee (NULL = none)
    token,          \* role claim carried by each employee's access token
    balances,       \* leave_balance rows: <<employee, type, year>> -> row
    apps,           \* leave_applications rows, index = leave_application_id
    notifications,  \* notifications rows
    clock,          \* datetime.now(), observed at decisions
    last,           \* the request just handled and its response, until the
                    \* response has been returned to the caller
    atApproval,     \* history: ledger row as read by each approval
    password_hash,  \* employees.password_hash, per employee
    is_active,      \* employees.is_active, per employee
    sessions        \* requests in progress side by side: each one's
                    \* position and the rows its database session has loaded

vars == <<role, manager_id, token, balances, apps, notifications, clock,
          last, atApproval, password_hash, is_active, sessions>>

\* the leave core: what the leave endpoints read and write
core == <<role, manager_id, token, balances, apps, notifications, clock,
          atApproval>>

\* date.year
Year(d) == ((d - 1) \div DaysPerYear) + 1

\* a day count that leaves out the last day
ExclusiveDays(start_date, end_date) == end_date - start_date

\* calculate_leave_days: (end_date - start_date).days + 1
calculate_leave_days(start_date, end_date) == (end_date - start_date) + 1

\* the (employee, leave type, year) key an application draws on
BalanceKey(app) == <<app.employee_id, app.leave_type_id, Year(app.start_date)>>

\* db.query(LeaveBalance).filter(...).first()
HasBalance(key) == key \in DOMAIN balances

\* a debit that forgets to recompute remaining_days
DebitStale(row, days) == [row EXCEPT !.used_days = row.used_days + days]

\* a debit taken from the allocation instead of being added to used_days
DebitAllocation(row, days) ==
    [row EXCEPT !.total_allocated = row.total_allocated - days,
                !.remaining_days = row.remaining_days - days]

\* balance.used_days += days; remaining_days = total_allocated - used_days
Debit(row, days) ==
    [row EXCEPT !.used_days = row.used_days + days,
                !.remaining_days = row.total_allocated - (row.used_days + days)]

\* a cancellation that leaves the ledger row as it is
CreditNothing(row, days) == row

\* a credit that counts the days exclusive of the last one
CreditExclusive(row, days) ==
    [row EXCEPT !.used_days = row.used_days - (days - 1),
                !.remaining_days =
                    row.total_allocated - (row.used_days - (days - 1))]

\* balance.used_days -= days; remaining_days = total_allocated - used_days
Credit(row, days) ==
    [row EXCEPT !.used_days = row.used_days - days,
                !.remaining_days = row.total_allocated - (row.used_days - days)]

\* seed_data.py: the admin has no balance rows; every sample employee gets
\* one row per leave type for the current year (year 1).
SeedBalances ==
    [k \in {<<e, t, 1>> : e \in Emp \ {1}, t \in LeaveTypes} |->
        [total_allocated |-> Allocation, used_days |-> 0,
         remaining_days |-> Allocation]]

SeedRole == [e \in Emp |-> IF e = 1 THEN ADMIN
                           ELSE IF e = 2 THEN MANAGER ELSE EMPLOYEE]

\* passwords a client may send; "short" has fewer than 6 characters
Passwords == {"secret1", "secret2", "short"}

\* app.utils.security.get_password_hash: a digest that determines the
\* password
get_password_hash(password) == <<"hash", password>>

\* app.utils.security.verify_password
verify_password(password, hash) == hash = get_password_hash(password)

\* seed_data.py: every seeded account is active and has a password
SeedPassword == [e \in Emp |-> get_password_hash("secret1")]

\* no response is pending
NoRequest == [op |-> "none", result |-> "none"]

Init ==
    /\ role = SeedRole
    /\ manager_id = [e \in Emp |-> IF SeedRole[e] = EMPLOYEE THEN 2 ELSE NULL]
    /\ token = SeedRole
    /\ balances = SeedBalances
    /\ apps = <<>>
    /\ notifications = {}
    /\ clock = 1
    /\ last = NoRequest
    /\ atApproval = <<>>
    /\ password_hash = SeedPassword
    /\ is_active = [e \in Emp |-> TRUE]
    /\ sessions = <<>>

\* history entry of an application no approval has debited
NotApproved ==
    [debited |-> FALSE, key |-> <<NULL, NULL, NULL>>, days |-> 0,
     used_days |-> 0, remaining_days |-> 0, clean |-> TRUE]

\* get_current_user: the fetched Employee's role is overwritten with the
\* token's role claim; the session flushes that on the handler's commit.
Commit(actor) == role' = [role EXCEPT ![actor] = token[actor]]

\* a request that raises before db.commit(): the session is discarded
Fail(op, result) ==
    /\ last' = [op |-> op, result |-> result]
    /\ UNCHANGED <<role, manager_id, token, balances, apps, notifications,
                   clock, atApproval>>

\* create_notification
Notify(employee_id, title, id) ==
    notifications' = notifications \cup
        {[employee_id |-> employee_id, title |-> title, app |-> id]}

\* a date check that accepts every pair of dates
DatesUnchecked(start_date, end_date) == TRUE

\* LeaveApplicationBase.validate_dates: end_date < start_date is an error
validate_dates(start_date, end_date) == end_date >= start_date

\* a submit that never refuses for lack of balance
NeverInsufficient(key, total_days) == FALSE

\* apply_for_leave: `balance and balance.remaining_days < total_days`
InsufficientAtSubmit(key, total_days) ==
    HasBalance(key) /\ balances[key].remaining_days < total_days

\* POST /applications
apply_for_leave(actor, leave_type_id, start_date, end_date, reason) ==
    LET total_days == calculate_leave_days(start_date, end_date)
        key == <<actor, leave_type_id, Year(start_date)>>
        id == Len(apps) + 1
    IN
    /\ Len(apps) < MaxApps
    /\ IF reason = "" \/ ~validate_dates(start_date, end_date)
       THEN Fail("submit", "ValidationError")
       ELSE IF leave_type_id \notin LeaveTypes
       THEN Fail("submit", "NotFound")
       ELSE IF InsufficientAtSubmit(key, total_days)
       THEN Fail("submit", "InsufficientBalance")
       ELSE /\ apps' = Append(apps,
                  [employee_id |-> actor, leave_type_id |-> leave_type_id,
                   start_date |-> start_date, end_date |-> end_date,
                   total_days |-> total_days, reason |-> reason,
                   status |-> PENDING, approved_by |-> NULL,
                   approved_rejected_on |-> NULL, rejection_reason |-> NONE])
            /\ atApproval' = Append(atApproval, NotApproved)
            /\ IF manager_id[actor] # NULL
               THEN Notify(manager_id[actor], "New Leave Application", id)
               ELSE UNCHANGED notifications
            /\ Commit(actor)
            /\ last' = [op |-> "submit", result |-> "ok"]
            /\ UNCHANGED <<manager_id, token, balances, clock>>

\* a decision taken whatever the current status
DecidableAlways(status) == TRUE

\* a decision refused only on a Cancelled application
DecidableUnlessCancelled(status) == status # CANCELLED

\* approve_leave: application.status != LeaveStatus.PENDING raises 400
Decidable(status) == status = PENDING

\* a cancel without the status check
CancellableAlways(status) == TRUE

\* a cancel that is also accepted on an already cancelled application
CancellableAgain(status) == status \in {PENDING, APPROVED, CANCELLED}

\* cancel_leave: status not in [PENDING, APPROVED] raises 400
Cancellable(status) == status \in {PENDING, APPROVED}

\* an edit without the status check
EditableAlways(status) == TRUE

\* update_leave_application: application.status != LeaveStatus.PENDING raises 400
Editable(status) == status = PENDING

\* a role gate that lets every authenticated employee through
AnyRoleAllowed(actor) == token[actor] \in UserRole

\* get_current_manager_or_admin
get_current_manager_or_admin(actor) == token[actor] \in {ADMIN, MANAGER}

\* LeaveApprovalRequest.validate_status
validate_status(v) == v \in {APPROVED, REJECTED}

\* an owner check that also lets an admin through
OwnerOrAdmin(application, actor) ==
    application.employee_id = actor \/ token[actor] = ADMIN

\* application.employee_id == current_user.employee_id
is_own_application(application, actor) == application.employee_id = actor

\* history bookkeeping: another debit or credit on row `key` disturbs every
\* approval recorded against that row
Disturb(h, key) == IF h.debited /\ h.key = key
                   THEN [h EXCEPT !.clean = FALSE] ELSE h

\* PUT /applications/{application_id}/approve
approve_leave(actor, application_id, status, rejection_reason) ==
    IF ~get_current_manager_or_admin(actor)
    THEN Fail("approve", "Forbidden")
    ELSE IF ~validate_status(status)
    THEN Fail("approve", "ValidationError")
    ELSE IF application_id \notin DOMAIN apps
    THEN Fail("approve", "NotFound")
    ELSE IF ~Decidable(apps[application_id].status)
    THEN Fail("approve", "InvalidStateTransition")
    ELSE
    LET application == apps[application_id]
        key == BalanceKey(application)
        debit == status = APPROVED /\ HasBalance(key)
    IN
    /\ apps' = [apps EXCEPT ![application_id] =
                 [application EXCEPT
                    !.status = status,
                    !.approved_by = actor,
                    !.approved_rejected_on = clock,
                    !.rejection_reason =
                        IF status = REJECTED THEN rejection_reason ELSE @]]
    /\ balances' = IF debit
                   THEN [balances EXCEPT
                           ![key] = Debit(@, application.total_days)]
                   ELSE balances
    /\ atApproval' =
         IF debit
         THEN [j \in DOMAIN atApproval |->
                 IF j = application_id
                 THEN [debited |-> TRUE, key |-> key,
                       days |-> balances'[key].used_days
                                    - balances[key].used_days,
                       used_days |-> balances[key].used_days,
                       remaining_days |-> balances[key].remaining_days,
                       clean |-> TRUE]
                 ELSE Disturb(atApproval[j], key)]
         ELSE atApproval
    /\ Notify(application.employee_id,
              IF status = APPROVED THEN "Leave Application Approved"
              ELSE "Leave Application Rejected", application_id)
    /\ clock' = clock + 1
    /\ Commit(actor)
    /\ last' = [op |-> "approve", result |-> "ok"]
    /\ UNCHANGED <<manager_id, token>>

\* PUT /applications/{application_id}/cancel
cancel_leave(actor, application_id) ==
    IF application_id \notin DOMAIN apps
    THEN Fail("cancel", "NotFound")
    ELSE IF ~is_own_application(apps[application_id], actor)
    THEN Fail("cancel", "Forbidden")
    ELSE IF ~Cancellable(apps[application_id].status)
    THEN Fail("cancel", "InvalidStateTransition")
    ELSE
    LET application == apps[application_id]
        key == BalanceKey(application)
        credit == application.status = APPROVED /\ HasBalance(key)
    IN
    /\ balances' = IF credit
                   THEN [balances EXCEPT
                           ![key] = Credit(@, application.total_days)]
                   ELSE balances
    /\ atApproval' =
         IF credit
         THEN [j \in DOMAIN atApproval |->
                 IF j = application_id THEN atApproval[j]
                 ELSE Disturb(atApproval[j], key)]
         ELSE atApproval
    /\ apps' = [apps EXCEPT ![application_id].status = CANCELLED]
    /\ IF manager_id[actor] # NULL
       THEN Notify(manager_id[actor], "Leave Application Cancelled",
                   application_id)
       ELSE UNCHANGED notifications
    /\ Commit(actor)
    /\ last' = [op |-> "cancel", result |-> "ok"]
    /\ UNCHANGED <<manager_id, token, clock>>

\* PUT /applications/{application_id}
\* `fields` are the keys of leave_update.model_dump(exclude_unset=True);
\* a date sent as JSON null is NULL, a reason sent as null is NONE.
update_leave_application(actor, application_id, fields, start_date, end_date, reason) ==
    IF "reason" \in fields /\ reason = ""
    THEN Fail("edit", "ValidationError")
    ELSE IF application_id \notin DOMAIN apps
    THEN Fail("edit", "NotFound")
    ELSE IF ~is_own_application(apps[application_id], actor)
    THEN Fail("edit", "Forbidden")
    ELSE IF ~Editable(apps[application_id].status)
    THEN Fail("edit", "InvalidStateTransition")
    ELSE
    LET application == apps[application_id]
        dates == "start_date" \in fields \/ "end_date" \in fields
        start == IF "start_date" \in fields THEN start_date
                 ELSE application.start_date
        end == IF "end_date" \in fields THEN end_date
               ELSE application.end_date
    IN
    IF dates /\ (start = NULL \/ end = NULL)
    THEN Fail("edit", "InternalError")   \* date - None raises TypeError
    ELSE IF "reason" \in fields /\ reason = NONE
    THEN Fail("edit", "InternalError")   \* reason is NOT NULL: commit fails
    ELSE
    /\ apps' = [apps EXCEPT ![application_id] =
                 [application EXCEPT
                    !.start_date = start,
                    !.end_date = end,
                    !.total_days = IF dates
                                   THEN calculate_leave_days(start, end)
                                   ELSE @,
                    !.reason = IF "reason" \in fields THEN reason ELSE @]]
    /\ Commit(actor)
    /\ last' = [op |-> "edit", result |-> "ok"]
    /\ UNCHANGED <<manager_id, token, balances, notifications, clock,
                   atApproval>>

\* a view rule that lets every manager see every application
AnyManager(application, actor) == token[actor] = MANAGER

\* get_leave_application: the viewer is the manager_id of the owner
is_manager_of_applicant(application, actor) ==
    manager_id[application.employee_id] = actor

\* get_leave_application: current_user.role == UserRole.ADMIN
is_admin(actor) == token[actor] = ADMIN

\* GET /applications/{application_id}: a read, nothing is committed
get_leave_application(actor, application_id) ==
    IF application_id \notin DOMAIN apps
    THEN Fail("get", "NotFound")
    ELSE IF ~(\/ is_own_application(apps[application_id], actor)
              \/ is_manager_of_applicant(apps[application_id], actor)
              \/ is_admin(actor))
    THEN Fail("get", "Forbidden")
    ELSE /\ last' = [op |-> "get", result |-> "ok"]
         /\ UNCHANGED <<role, manager_id, token, balances, apps,
                        notifications, clock, atApproval>>

AppIds == 1..MaxApps

\* Request bodies.  A request that is refused before its body is read is
\* issued with one representative body: every other body gives the same step.
ApplyBodies ==
    {<<1, s, e, "a">> : s \in Dates, e \in Dates}
        \cup {<<1, 1, 1, "">>, <<2, 1, 1, "a">>}

ApprovalBodies(actor, id) ==
    IF ~get_current_manager_or_admin(actor)
    THEN {<<APPROVED, NONE>>}
    ELSE IF id \notin DOMAIN apps \/ apps[id].status # PENDING
    THEN {<<st, NONE>> : st \in LeaveStatus}
    ELSE {<<st, NONE>> : st \in LeaveStatus}
            \cup {<<REJECTED, "">>, <<REJECTED, "why">>}

UpdateBodies(actor, id) ==
    IF \/ id \notin DOMAIN apps
       \/ apps[id].employee_id # actor
       \/ apps[id].status # PENDING
    THEN {<<{}, NULL, NULL, NONE>>, <<{"reason"}, NULL, NULL, "">>}
    ELSE {<<f, IF "start_date" \in f THEN s ELSE NULL,
               IF "end_date" \in f THEN e ELSE NULL,
               IF "reason" \in f THEN r ELSE NONE>> :
            f \in SUBSET {"start_date", "end_date", "reason"},
            s \in Dates, e \in Dates, r \in {"", "a"}}
         \cup {<<{"start_date"}, NULL, NULL, NONE>>,
               <<{"reason"}, NULL, NULL, NONE>>}

\* the handler returns; the caller has the response and may send a request
return_response ==
    /\ last # NoRequest
    /\ last' = NoRequest
    /\ UNCHANGED <<role, manager_id, token, balances, apps, notifications,
                   clock, atApproval, password_hash, is_active, sessions>>

\* Requests are handled one at a time (sequential execution); the leave
\* endpoints touch neither the credentials nor another request's session.
Next ==
    \/ /\ last = NoRequest
       /\ UNCHANGED <<password_hash, is_active, sessions>>
       /\ \E actor \in Emp, b \in ApplyBodies :
             apply_for_leave(actor, b[1], b[2], b[3], b[4])
    \/ /\ last = NoRequest
       /\ UNCHANGED <<password_hash, is_active, sessions>>
       /\ \E actor \in Emp, id \in AppIds :
             \E b \in ApprovalBodies(actor, id) :
                approve_leave(actor, id, b[1], b[2])
    \/ /\ last = NoRequest
       /\ UNCHANGED <<password_hash, is_active, sessions>>
       /\ \E actor \in Emp, id \in AppIds : cancel_leave(actor, id)
    \/ /\ last = NoRequest
       /\ UNCHANGED <<password_hash, is_active, sessions>>
       /\ \E actor \in Emp, id \in AppIds :
             \E b \in UpdateBodies(actor, id) :
                update_leave_application(actor, id, b[1], b[2], b[3], b[4])
    \/ /\ last = NoRequest
       /\ UNCHANGED <<password_hash, is_active, sessions>>
       /\ \E actor \in Emp, id \in AppIds : get_leave_application(actor, id)
    \/ return_response

Spec == Init /\ [][Next]_vars

-----------------------------------------------------------------------------
(***************************************************************************)
(* Properties                                                              *)
(***************************************************************************)

\* C1: every leave balance row satisfies
\* remaining_days = total_allocated - used_days in every reachable state.
C1_RemainingIsAllocatedMinusUsed ==
    \A k \in DOMAIN balances :
        balances[k].remaining_days
            = balances[k].total_allocated - balances[k].used_days

\* a row has been debited by an approval and credited by a cancellation
C1_Witness ==
    /\ last = [op |-> "cancel", result |-> "ok"]
    /\ \E i \in DOMAIN apps :
          /\ apps[i].status = CANCELLED /\ atApproval[i].debited
    /\ \E k \in DOMAIN balances : balances[k].used_days > 0

\* C2: no balance is overdrawn, used_days never exceeds total_allocated
\* (remaining_days is never negative).
C2_NoOverdraw ==
    \A k \in DOMAIN balances :
        /\ balances[k].used_days <= balances[k].total_allocated
        /\ balances[k].remaining_days >= 0

\* total_days of the Approved applications among apps[1..n] that draw on key
RECURSIVE ApprovedDays(_, _)
ApprovedDays(key, n) ==
    IF n = 0 THEN 0
    ELSE ApprovedDays(key, n - 1)
            + (IF apps[n].status = APPROVED /\ BalanceKey(apps[n]) = key
               THEN apps[n].total_days ELSE 0)

\* C3: for each balance row, used_days equals its initial used_days plus the
\* total_days of the owner's Approved applications of that leave type whose
\* start_date falls in that year.
C3_LedgerMatchesLifecycle ==
    \A k \in DOMAIN balances :
        balances[k].used_days
            = SeedBalances[k].used_days + ApprovedDays(k, Len(apps))

\* one row carries an Approved application next to one that was approved and
\* then cancelled
C3_Witness ==
    \E i, j \in DOMAIN apps :
        /\ apps[i].status = APPROVED /\ HasBalance(BalanceKey(apps[i]))
        /\ apps[j].status = CANCELLED /\ atApproval[j].debited
        /\ BalanceKey(apps[j]) = BalanceKey(apps[i])

\* C4: when an Approved application is cancelled, the cancel credits, on the
\* row its approval debited, exactly the days that approval debited; with no
\* other approval or cancellation on that row in between, used_days and
\* remaining_days are back at their values from just before the approval.
C4_RoundTrip ==
    [][\A i \in DOMAIN apps :
         (/\ apps[i].status = APPROVED
          /\ apps'[i].status = CANCELLED
          /\ atApproval[i].debited)
         => LET k == atApproval[i].key
                h == atApproval[i]
            IN /\ k = BalanceKey(apps[i])
               /\ k \in DOMAIN balances'
               /\ h.days = apps[i].total_days
               /\ balances'[k].used_days = balances[k].used_days - h.days
               /\ balances'[k].remaining_days
                    = balances[k].remaining_days + h.days
               /\ h.clean =>
                    /\ balances'[k].used_days = h.used_days
                    /\ balances'[k].remaining_days = h.remaining_days
      ]_vars

\* an approved application was cancelled with nothing else touching its row,
\* and another one after the row had been debited again
C4_Witness ==
    /\ last = [op |-> "cancel", result |-> "ok"]
    /\ \E i \in DOMAIN apps :
          /\ apps[i].status = CANCELLED
          /\ atApproval[i].debited /\ atApproval[i].clean
          /\ balances[atApproval[i].key].used_days = atApproval[i].used_days
    /\ \E j \in DOMAIN apps :
          /\ apps[j].status = CANCELLED
          /\ atApproval[j].debited /\ ~atApproval[j].clean

\* C5: an application's status changes only along Pending -> Approved,
\* Pending -> Rejected, Pending -> Cancelled or Approved -> Cancelled; a
\* Rejected or Cancelled application never changes status again.
C5_StatusTransitions ==
    [][/\ DOMAIN apps \subseteq DOMAIN apps'
       /\ \A i \in DOMAIN apps :
            \/ apps'[i].status = apps[i].status
            \/ <<apps[i].status, apps'[i].status>> \in
                 {<<PENDING, APPROVED>>, <<PENDING, REJECTED>>,
                  <<PENDING, CANCELLED>>, <<APPROVED, CANCELLED>>}
      ]_vars

\* a cancel was refused on a terminal application while the other one went
\* Approved -> Cancelled
C5_Witness ==
    /\ last = [op |-> "cancel", result |-> "InvalidStateTransition"]
    /\ \E i, j \in DOMAIN apps :
          /\ apps[i].status = REJECTED
          /\ apps[j].status = CANCELLED /\ apps[j].approved_by # NULL

\* well-formed approval request bodies: <<status, rejection_reason>>
Decisions ==
    {<<APPROVED, NONE>>, <<REJECTED, NONE>>, <<REJECTED, "">>,
     <<REJECTED, "why">>}

\* C6: approving a Pending application whose total_days exceeds the
\* remaining_days of its balance row fails with InsufficientBalance and
\* leaves the application and the ledger unchanged.
C6_InsufficientApprovalRefused ==
    [][last'.op = "approve" =>
       \A actor \in Emp, i \in DOMAIN apps :
         (/\ token[actor] \in {ADMIN, MANAGER}
          /\ apps[i].status = PENDING
          /\ HasBalance(BalanceKey(apps[i]))
          /\ apps[i].total_days > balances[BalanceKey(apps[i])].remaining_days
          /\ approve_leave(actor, i, APPROVED, NONE))
         => /\ last'.result = "InsufficientBalance"
            /\ apps' = apps
            /\ balances' = balances
      ]_vars

\* C7: when no balance row exists for (owner, leave type, year of
\* start_date), an approval fails and the application stays Pending; no
\* application becomes Approved without a debit on a balance row.
C7_NoApprovalWithoutDebit ==
    [][/\ \A actor \in Emp, i \in DOMAIN apps :
            (/\ last'.op = "approve"
             /\ token[actor] \in {ADMIN, MANAGER}
             /\ apps[i].status = PENDING
             /\ ~HasBalance(BalanceKey(apps[i]))
             /\ approve_leave(actor, i, APPROVED, NONE))
            => /\ last'.result # "ok"
               /\ apps'[i].status = PENDING
       /\ \A i \in DOMAIN apps :
            (apps[i].status # APPROVED /\ apps'[i].status = APPROVED)
            => /\ HasBalance(BalanceKey(apps[i]))
               /\ balances'[BalanceKey(apps[i])].used_days
                    = balances[BalanceKey(apps[i])].used_days
                        + apps[i].total_days
      ]_vars

\* C8: a manager's approve/reject of a Pending application whose owner is
\* not one of their direct reports fails with Forbidden and leaves the
\* application and the ledger unchanged.
C8_ManagerOnlyDirectReports ==
    [][last'.op = "approve" =>
       \A actor \in Emp, i \in DOMAIN apps, b \in Decisions :
         (/\ token[actor] = MANAGER
          /\ apps[i].status = PENDING
          /\ manager_id[apps[i].employee_id] # actor
          /\ approve_leave(actor, i, b[1], b[2]))
         => /\ last'.result = "Forbidden"
            /\ apps' = apps
            /\ balances' = balances
      ]_vars

\* C9: an application moves to Approved or Rejected only in an approve
\* request of an actor whose role is admin or manager; an approve request of
\* any other actor is refused and changes nothing; an admin's decision on a
\* Pending application takes effect whoever the owner's manager is.
C9_OnlyManagerOrAdminDecides ==
    [][/\ \A i \in DOMAIN apps :
            (/\ apps'[i].status \in {APPROVED, REJECTED}
             /\ apps'[i].status # apps[i].status)
            => /\ last'.op = "approve"
               /\ apps'[i].approved_by \in Emp
               /\ token[apps'[i].approved_by] \in {ADMIN, MANAGER}
       /\ \A actor \in Emp, i \in AppIds, st \in LeaveStatus,
             rr \in {NONE, "", "why"} :
            (/\ last'.op = "approve"
             /\ token[actor] \notin {ADMIN, MANAGER}
             /\ approve_leave(actor, i, st, rr))
            => /\ last'.result = "Forbidden"
               /\ apps' = apps
               /\ balances' = balances
       /\ \A actor \in Emp, i \in DOMAIN apps, b \in Decisions :
            (/\ last'.op = "approve"
             /\ token[actor] = ADMIN
             /\ apps[i].status = PENDING
             /\ approve_leave(actor, i, b[1], b[2]))
            => /\ last'.result = "ok"
               /\ apps'[i].status = b[1]
               /\ apps'[i].approved_by = actor
      ]_vars

\* a plain employee's approve was refused; the admin has decided an
\* application of an employee who reports to someone else
C9_Witness ==
    /\ last = [op |-> "approve", result |-> "Forbidden"]
    /\ \E i \in DOMAIN apps :
          /\ apps[i].status = APPROVED
          /\ token[apps[i].approved_by] = ADMIN
          /\ manager_id[apps[i].employee_id] # apps[i].approved_by
          /\ manager_id[apps[i].employee_id] # NULL
    /\ \E i \in DOMAIN apps :
          /\ apps[i].status = PENDING
          /\ token[apps[i].employee_id] = EMPLOYEE

\* C10 as stated: approve_or_reject on an application that is not Pending
\* fails with InvalidStateTransition and changes neither the application
\* nor any balance.
C10_NonPendingIsInvalidTransition ==
    [][last'.op = "approve" =>
       \A actor \in Emp, i \in DOMAIN apps, b \in Decisions :
         (/\ apps[i].status # PENDING
          /\ approve_leave(actor, i, b[1], b[2]))
         => /\ last'.result = "InvalidStateTransition"
            /\ apps' = apps
            /\ balances' = balances
      ]_vars

\* C10 amended: approve_or_reject on an application that is not Pending
\* changes neither the application nor any balance; it fails with
\* InvalidStateTransition when the actor's role is admin or manager, and
\* with Forbidden (the role gate comes first) for any other actor.
C10_NonPendingRefused ==
    [][last'.op = "approve" =>
       \A actor \in Emp, i \in DOMAIN apps, b \in Decisions :
         (/\ apps[i].status # PENDING
          /\ approve_leave(actor, i, b[1], b[2]))
         => /\ last'.result = IF token[actor] \in {ADMIN, MANAGER}
                              THEN "InvalidStateTransition"
                              ELSE "Forbidden"
            /\ apps' = apps
            /\ balances' = balances
      ]_vars

\* a manager's or admin's decision on an Approved, a Rejected or a Cancelled
\* application was refused
C10_Witness ==
    /\ last = [op |-> "approve", result |-> "InvalidStateTransition"]
    /\ \E i \in DOMAIN apps : apps[i].status \in {APPROVED, REJECTED}
    /\ \E i \in DOMAIN apps : apps[i].status = CANCELLED

\* C11: a cancel of an application whose status is Rejected or Cancelled
\* is refused and leaves every application and every balance unchanged (no
\* second credit); the owner's cancel fails with InvalidStateTransition.
C11_TerminalCancelRefused ==
    [][last'.op = "cancel" =>
       \A actor \in Emp, i \in DOMAIN apps :
         (/\ apps[i].status \in {REJECTED, CANCELLED}
          /\ cancel_leave(actor, i))
         => /\ last'.result # "ok"
            /\ is_own_application(apps[i], actor)
                 => last'.result = "InvalidStateTransition"
            /\ apps' = apps
            /\ balances' = balances
            /\ notifications' = notifications
      ]_vars

\* every application was approved with a debit and then cancelled, and a
\* further cancel of one of them has just been refused
C11_Witness ==
    /\ last = [op |-> "cancel", result |-> "InvalidStateTransition"]
    /\ Len(apps) = MaxApps
    /\ \A i \in DOMAIN apps :
          apps[i].status = CANCELLED /\ atApproval[i].debited
    /\ \A k \in DOMAIN balances : balances[k].used_days = 0

\* C12: only the owning employee can cancel: a cancel by any other actor,
\* whatever their role, fails with Forbidden and changes neither the
\* application nor the ledger; an application becomes Cancelled only in a
\* cancel request of its owner.
C12_OnlyOwnerCancels ==
    [][/\ \A actor \in Emp, i \in DOMAIN apps :
            (/\ last'.op = "cancel"
             /\ apps[i].employee_id # actor
             /\ cancel_leave(actor, i))
            => /\ last'.result = "Forbidden"
               /\ apps' = apps
               /\ balances' = balances
       /\ \A i \in DOMAIN apps :
            (apps'[i].status = CANCELLED /\ apps[i].status # CANCELLED)
            => cancel_leave(apps[i].employee_id, i)
      ]_vars

\* every application belongs to employee 3, who reports to manager 2; a
\* cancel by the manager or by the admin has just been refused while one
\* application is Pending and the other Approved
C12_Witness ==
    /\ last = [op |-> "cancel", result |-> "Forbidden"]
    /\ Len(apps) = MaxApps
    /\ \A i \in DOMAIN apps :
          apps[i].employee_id = 3 /\ manager_id[3] = 2
    /\ \E i, j \in DOMAIN apps :
          apps[i].status = PENDING /\ apps[j].status = APPROVED

\* well-formed edit bodies: <<fields, start_date, end_date, reason>>; a
\* field that is not sent is NULL / NONE, a reason that is sent is not empty
EditBodies ==
    {<<f, IF "start_date" \in f THEN s ELSE NULL,
          IF "end_date" \in f THEN e ELSE NULL,
          IF "reason" \in f THEN "a" ELSE NONE>> :
        f \in SUBSET {"start_date", "end_date", "reason"},
        s \in Dates, e \in Dates}

\* C13: an edit succeeds only when the actor is the owner and the
\* application is Pending: a non-owner's edit fails with Forbidden, an
\* owner's edit of an Approved, Rejected or Cancelled application fails with
\* InvalidStateTransition, and in both cases dates, total_days and reason
\* are unchanged; these fields change only in a successful edit of a
\* Pending application.
C13_EditOnlyByOwnerWhilePending ==
    [][/\ last'.op = "edit" =>
            \A actor \in Emp, i \in DOMAIN apps :
               (apps[i].employee_id # actor \/ apps[i].status # PENDING)
               => \A b \in EditBodies :
                    update_leave_application(actor, i, b[1], b[2], b[3], b[4])
                    => /\ last'.result =
                            IF apps[i].employee_id # actor
                            THEN "Forbidden" ELSE "InvalidStateTransition"
                       /\ apps' = apps
       /\ \A i \in DOMAIN apps :
            (\/ apps'[i].start_date # apps[i].start_date
             \/ apps'[i].end_date # apps[i].end_date
             \/ apps'[i].total_days # apps[i].total_days
             \/ apps'[i].reason # apps[i].reason)
            => /\ apps[i].status = PENDING
               /\ update_leave_application(apps[i].employee_id, i,
                     {"start_date", "end_date", "reason"},
                     apps'[i].start_date, apps'[i].end_date, apps'[i].reason)
      ]_vars

\* no application is Pending any more (one Approved, one Rejected or
\* Cancelled) and its owner's edit has just been refused
C13_Witness ==
    /\ last = [op |-> "edit", result |-> "InvalidStateTransition"]
    /\ Len(apps) = MaxApps
    /\ \E i, j \in DOMAIN apps :
          /\ apps[i].status = APPROVED
          /\ apps[j].status \in {REJECTED, CANCELLED}

\* well-formed submit bodies: <<leave_type_id, start_date, end_date, reason>>
SubmitBodies ==
    {<<t, s, e, "a">> : t \in LeaveTypes, s \in Dates, e \in Dates}

\* C14: a submit whose total_days exceeds the remaining_days of the existing
\* balance row for (employee, leave type, year of start_date) fails with
\* InsufficientBalance and creates no application.
C14_InsufficientSubmitRefused ==
    [][last'.op = "submit" =>
       \A actor \in Emp, b \in SubmitBodies :
         LET key == <<actor, b[1], Year(b[2])>>
         IN (/\ b[3] >= b[2]
             /\ key \in DOMAIN balances
             /\ (b[3] - b[2]) + 1 > balances[key].remaining_days
             /\ apply_for_leave(actor, b[1], b[2], b[3], b[4]))
            => /\ last'.result = "InsufficientBalance"
               /\ apps' = apps
               /\ balances' = balances
      ]_vars

\* after an approval has used part of a balance, a submit for more than the
\* rest has been refused
C14_Witness ==
    /\ last = [op |-> "submit", result |-> "InsufficientBalance"]
    /\ \E k \in DOMAIN balances :
          balances[k].used_days > 0 /\ balances[k].remaining_days >= 0

\* C15: submit fails closed: when no balance row exists for (employee,
\* leave type, year of start_date), the submit is refused as
\* InsufficientBalance and no application is created.
C15_SubmitFailsClosed ==
    [][last'.op = "submit" =>
       \A actor \in Emp, b \in SubmitBodies :
         (/\ b[3] >= b[2]
          /\ <<actor, b[1], Year(b[2])>> \notin DOMAIN balances
          /\ apply_for_leave(actor, b[1], b[2], b[3], b[4]))
         => /\ last'.result = "InsufficientBalance"
            /\ apps' = apps
      ]_vars

\* C16: a submit with end_date < start_date fails with ValidationError
\* whatever the leave type and the balance, creates no application and
\* leaves the ledger untouched.
C16_BadDatesRefused ==
    [][last'.op = "submit" =>
       \A actor \in Emp, t \in {1, 2}, s \in Dates, e \in Dates,
          r \in {"a", ""} :
         (e < s /\ apply_for_leave(actor, t, s, e, r))
         => /\ last'.result = "ValidationError"
            /\ apps' = apps
            /\ balances' = balances
      ]_vars

\* a submit has been refused by the request validation while further
\* applications could still be created and a balance is used up
C16_Witness ==
    /\ last = [op |-> "submit", result |-> "ValidationError"]
    /\ Len(apps) < MaxApps
    /\ \E k \in DOMAIN balances : balances[k].remaining_days = 0

\* C17: every application satisfies end_date >= start_date in every
\* reachable state, also after edits of start_date, of end_date or of both.
C17_EndNotBeforeStart ==
    \A i \in DOMAIN apps : apps[i].end_date >= apps[i].start_date

\* C18: every application has total_days = (end_date - start_date) + 1 after
\* every step (computed at submit, recomputed from the resulting dates by an
\* edit), and a step that changes neither date leaves total_days unchanged.
C18_TotalDaysFromDates ==
    [][\A i \in DOMAIN apps' :
         /\ apps'[i].total_days
              = (apps'[i].end_date - apps'[i].start_date) + 1
         /\ (/\ i \in DOMAIN apps
             /\ apps'[i].start_date = apps[i].start_date
             /\ apps'[i].end_date = apps[i].end_date)
            => apps'[i].total_days = apps[i].total_days
      ]_vars

\* an edit has just succeeded; one application spans two days and the other
\* has dates that only an edit of one date can have produced
C18_Witness ==
    /\ last = [op |-> "edit", result |-> "ok"]
    /\ \E i, j \in DOMAIN apps :
          /\ apps[i].total_days = 2 /\ apps[i].end_date = apps[i].start_date + 1
          /\ apps[j].end_date < apps[j].start_date

\* C19: every Rejected application has a non-empty rejection_reason (a
\* reject without a reason, or with an empty one, is refused with
\* ValidationError and the application stays Pending).
C19_RejectedHasReason ==
    \A i \in DOMAIN apps :
        apps[i].status = REJECTED
        => apps[i].rejection_reason \notin {NONE, ""}

\* C20: a get of an existing application succeeds exactly when the viewer
\* is its owner, the owner's direct manager (owner.manager_id = viewer) or
\* an admin; any other viewer's get fails with Forbidden; a get changes
\* nothing.
C20_ViewPolicy ==
    [][last'.op = "get" =>
       \A actor \in Emp, i \in DOMAIN apps :
         get_leave_application(actor, i)
         => LET granted == \/ apps[i].employee_id = actor
                           \/ manager_id[apps[i].employee_id] = actor
                           \/ token[actor] = ADMIN
            IN /\ last'.result = IF granted THEN "ok" ELSE "Forbidden"
               /\ apps' = apps
               /\ balances' = balances
      ]_vars

\* every application is the admin's, who reports to nobody: the get that
\* has just been refused came from the manager or from a plain employee
C20_Witness ==
    /\ last = [op |-> "get", result |-> "Forbidden"]
    /\ Len(apps) = MaxApps
    /\ \A i \in DOMAIN apps :
          apps[i].employee_id = 1 /\ manager_id[1] = NULL

\* C22: a cancel produces a notification to the owner's manager only when
\* the application was Pending before the cancel; the cancel of an Approved
\* application produces no notification.
C22_CancelNotifiesOnlyFromPending ==
    [][\A i \in DOMAIN apps :
         (/\ apps[i].status = APPROVED
          /\ apps'[i].status = CANCELLED)
         => notifications' = notifications
      ]_vars

\* C25: approved_by and approved_rejected_on are written exactly once: both
\* are null while the application is Pending and stay null when it is
\* cancelled from Pending; the step that makes it Approved or Rejected sets
\* both; no other step (edit, cancel, refused or further decision) changes
\* either of them.
C25_DecisionFieldsWrittenOnce ==
    [][\A i \in DOMAIN apps' :
         /\ apps'[i].status = PENDING
              => /\ apps'[i].approved_by = NULL
                 /\ apps'[i].approved_rejected_on = NULL
         /\ (apps'[i].approved_by = NULL)
              <=> (apps'[i].approved_rejected_on = NULL)
         /\ i \in DOMAIN apps
              => IF /\ apps[i].status = PENDING
                    /\ apps'[i].status \in {APPROVED, REJECTED}
                 THEN /\ apps'[i].approved_by # NULL
                      /\ apps'[i].approved_rejected_on # NULL
                 ELSE /\ apps'[i].approved_by = apps[i].approved_by
                      /\ apps'[i].approved_rejected_on
                           = apps[i].approved_rejected_on
      ]_vars

\* one application was cancelled from Pending and is still undecided, the
\* other was decided and then cancelled, and a further decision has just
\* been refused
C25_Witness ==
    /\ last = [op |-> "approve", result |-> "InvalidStateTransition"]
    /\ \E i, j \in DOMAIN apps :
          /\ apps[i].status = CANCELLED
          /\ apps[i].approved_by = NULL
          /\ apps[i].approved_rejected_on = NULL
          /\ apps[j].status = CANCELLED
          /\ apps[j].approved_by # NULL
          /\ apps[j].approved_rejected_on # NULL

\* C26: frame of the ledger.  No step creates or deletes a balance row or
\* changes total_allocated; a step changes balances only when it takes an
\* application from Pending to Approved or from Approved to Cancelled, and
\* then only the row keyed by (owner, leave type, year of start_date); so
\* submit, edit, reject and cancel of a Pending application leave every row
\* unchanged.  An owner's edit of a Pending application to valid dates
\* succeeds also when the new total_days exceeds remaining_days.
C26_LedgerFrame ==
    [][/\ DOMAIN balances' = DOMAIN balances
       /\ \A k \in DOMAIN balances :
            balances'[k].total_allocated = balances[k].total_allocated
       /\ balances' # balances
            => \E i \in DOMAIN apps :
                 /\ <<apps[i].status, apps'[i].status>>
                      \in {<<PENDING, APPROVED>>, <<APPROVED, CANCELLED>>}
                 /\ \A k \in DOMAIN balances :
                      k # <<apps[i].employee_id, apps[i].leave_type_id,
                            Year(apps[i].start_date)>>
                      => balances'[k] = balances[k]
       /\ last'.op = "edit" =>
            \A i \in DOMAIN apps, s \in Dates, e \in Dates :
              (/\ apps[i].status = PENDING
               /\ e >= s
               /\ <<apps[i].employee_id, apps[i].leave_type_id, Year(s)>>
                    \in DOMAIN balances
               /\ (e - s) + 1 >
                    balances[<<apps[i].employee_id, apps[i].leave_type_id,
                               Year(s)>>].remaining_days
               /\ update_leave_application(apps[i].employee_id, i,
                     {"start_date", "end_date"}, s, e, NONE))
              => /\ last'.result = "ok"
                 /\ apps'[i].total_days = (e - s) + 1
                 /\ balances' = balances
      ]_vars

\* an edit has just succeeded and a Pending application asks for more days
\* than its balance row has left
C26_Witness ==
    /\ last = [op |-> "edit", result |-> "ok"]
    /\ \E i \in DOMAIN apps :
          /\ apps[i].status = PENDING
          /\ HasBalance(BalanceKey(apps[i]))
          /\ apps[i].total_days
               > balances[BalanceKey(apps[i])].remaining_days
          /\ balances[BalanceKey(apps[i])].used_days > 0

-----------------------------------------------------------------------------
(***************************************************************************)
(* The notification step fails: create_notification raises, or the insert  *)
(* of the notification row is refused when the session is flushed.         *)
(***************************************************************************)

\* apply_for_leave: the application is committed first (leaves.py 282-284);
\* an exception inside the try block is swallowed, one raised by the second
\* db.commit() propagates as a 500.
apply_for_leave_notification_fails(actor, leave_type_id, start_date, end_date, reason, at_commit) ==
    LET total_days == calculate_leave_days(start_date, end_date)
        key == <<actor, leave_type_id, Year(start_date)>>
    IN
    /\ Len(apps) < MaxApps
    /\ reason # "" /\ validate_dates(start_date, end_date)
    /\ leave_type_id \in LeaveTypes
    /\ ~InsufficientAtSubmit(key, total_days)
    /\ manager_id[actor] # NULL
    /\ apps' = Append(apps,
          [employee_id |-> actor, leave_type_id |-> leave_type_id,
           start_date |-> start_date, end_date |-> end_date,
           total_days |-> total_days, reason |-> reason,
           status |-> PENDING, approved_by |-> NULL,
           approved_rejected_on |-> NULL, rejection_reason |-> NONE])
    /\ atApproval' = Append(atApproval, NotApproved)
    /\ Commit(actor)
    /\ last' = [op |-> "submit",
                result |-> IF at_commit THEN "InternalError" ELSE "ok"]
    /\ UNCHANGED <<manager_id, token, balances, notifications, clock>>

\* approve_leave: create_notification is called before the only
\* db.commit(), outside any try block
approve_leave_notification_fails(actor, application_id, status, rejection_reason) ==
    /\ get_current_manager_or_admin(actor)
    /\ validate_status(status)
    /\ application_id \in DOMAIN apps
    /\ Decidable(apps[application_id].status)
    /\ Fail("approve", "InternalError")

\* cancel_leave: as approve_leave, when the owner has a manager
cancel_leave_notification_fails(actor, application_id) ==
    /\ application_id \in DOMAIN apps
    /\ is_own_application(apps[application_id], actor)
    /\ Cancellable(apps[application_id].status)
    /\ manager_id[actor] # NULL
    /\ Fail("cancel", "InternalError")

NextNotify ==
    \/ Next
    \/ /\ last = NoRequest
       /\ UNCHANGED <<password_hash, is_active, sessions>>
       /\ \E actor \in Emp, b \in SubmitBodies, at_commit \in BOOLEAN :
             apply_for_leave_notification_fails(actor, b[1], b[2], b[3],
                                                b[4], at_commit)
    \/ /\ last = NoRequest
       /\ UNCHANGED <<password_hash, is_active, sessions>>
       /\ \E actor \in Emp, id \in AppIds, b \in Decisions :
             approve_leave_notification_fails(actor, id, b[1], b[2])
    \/ /\ last = NoRequest
       /\ UNCHANGED <<password_hash, is_active, sessions>>
       /\ \E actor \in Emp, id \in AppIds :
             cancel_leave_notification_fails(actor, id)

SpecNotify == Init /\ [][NextNotify]_vars

\* C21: a failure of the notification step neither aborts nor rolls back
\* the transition: the submit still creates the application, the decision
\* still sets the status (and debits the row of an approval), the cancel
\* still sets Cancelled, and none of them reports failure.
C21_NotificationFailureHarmless ==
    [][/\ \A actor \in Emp, b \in SubmitBodies, c \in BOOLEAN :
            apply_for_leave_notification_fails(actor, b[1], b[2], b[3],
                                               b[4], c)
            => /\ Len(apps') = Len(apps) + 1
               /\ last'.result = "ok"
       /\ \A actor \in Emp, i \in DOMAIN apps, b \in Decisions :
            approve_leave_notification_fails(actor, i, b[1], b[2])
            => /\ apps'[i].status = b[1]
               /\ (b[1] = APPROVED /\ HasBalance(BalanceKey(apps[i])))
                    => balances' # balances
               /\ last'.result = "ok"
       /\ \A actor \in Emp, i \in DOMAIN apps :
            cancel_leave_notification_fails(actor, i)
            => /\ apps'[i].status = CANCELLED
               /\ last'.result = "ok"
      ]_vars

-----------------------------------------------------------------------------
(***************************************************************************)
(* Balance rows created after the start: a row for a new year or for an    *)
(* employee who had none is inserted from outside the application          *)
(* endpoints, with used_days = 0, as seed_data.py inserts them.            *)
(***************************************************************************)
MaxNewRows == 1       \* balance rows inserted after the start

create_balance(employee_id, leave_type_id, year) ==
    LET key == <<employee_id, leave_type_id, year>>
    IN
    /\ ~HasBalance(key)
    /\ Cardinality(DOMAIN balances)
          < Cardinality(DOMAIN SeedBalances) + MaxNewRows
    /\ balances' =
          [k \in DOMAIN balances \cup {key} |->
             IF k = key
             THEN [total_allocated |-> Allocation, used_days |-> 0,
                   remaining_days |-> Allocation]
             ELSE balances[k]]
    /\ UNCHANGED <<role, manager_id, token, apps, notifications, clock,
                   last, atApproval>>

NextLedger ==
    \/ Next
    \/ /\ last = NoRequest
       /\ UNCHANGED <<password_hash, is_active, sessions>>
       /\ \E employee_id \in Emp, t \in LeaveTypes, d \in Dates :
             create_balance(employee_id, t, Year(d))

SpecLedger == Init /\ [][NextLedger]_vars

\* C27: used_days of every balance row is >= 0 in every reachable state,
\* also when an application was approved while its row did not exist yet
\* and is cancelled after the row has been created.
C27_UsedDaysNonNegative ==
    \A k \in DOMAIN balances : balances[k].used_days >= 0

-----------------------------------------------------------------------------
(***************************************************************************)
(* Accounts: login, change of password, deactivation and change of role.   *)
(* A client holds one access token per employee: the one of its last       *)
(* login.  HTTP 401 is Unauthenticated, the 400 of change-password is      *)
(* IncorrectPassword.                                                      *)
(***************************************************************************)

\* POST /login; employee_id = NULL stands for an unknown email
login(employee_id, password) ==
    IF employee_id \notin Emp
    THEN Fail("login", "Unauthenticated")
         /\ UNCHANGED <<password_hash, is_active>>
    ELSE IF ~verify_password(password, password_hash[employee_id])
    THEN Fail("login", "Unauthenticated")
         /\ UNCHANGED <<password_hash, is_active>>
    ELSE IF ~is_active[employee_id]
    THEN Fail("login", "Forbidden")
         /\ UNCHANGED <<password_hash, is_active>>
    ELSE /\ token' = [token EXCEPT ![employee_id] = role[employee_id]]
         /\ last' = [op |-> "login", result |-> "ok"]
         /\ UNCHANGED <<role, manager_id, balances, apps, notifications,
                        clock, atApproval, password_hash, is_active>>

\* ChangePassword.validate_password: at least 6 characters
validate_password(v) == v # "short"

\* a change of password that does not look at the current password
CurrentPasswordUnchecked(actor, current_password) == TRUE

\* change_password: verify_password(current_password, current_user.password_hash)
current_password_ok(actor, current_password) ==
    verify_password(current_password, password_hash[actor])

\* POST /change-password
change_password(actor, current_password, new_password) ==
    IF ~validate_password(new_password)
    THEN Fail("change_password", "ValidationError")
         /\ UNCHANGED <<password_hash, is_active>>
    ELSE IF ~current_password_ok(actor, current_password)
    THEN Fail("change_password", "IncorrectPassword")
         /\ UNCHANGED <<password_hash, is_active>>
    ELSE /\ password_hash' = [password_hash EXCEPT
                                ![actor] = get_password_hash(new_password)]
         /\ Commit(actor)
         /\ last' = [op |-> "change_password", result |-> "ok"]
         /\ UNCHANGED <<manager_id, token, balances, apps, notifications,
                        clock, atApproval, is_active>>

\* get_current_admin
get_current_admin(actor) == token[actor] = ADMIN

\* DELETE /employees/{employee_id}: soft delete
delete_employee(actor, employee_id) ==
    IF ~get_current_admin(actor)
    THEN Fail("delete_employee", "Forbidden")
         /\ UNCHANGED <<password_hash, is_active>>
    ELSE IF employee_id \notin Emp
    THEN Fail("delete_employee", "NotFound")
         /\ UNCHANGED <<password_hash, is_active>>
    ELSE /\ is_active' = [is_active EXCEPT ![employee_id] = FALSE]
         /\ Commit(actor)
         /\ last' = [op |-> "delete_employee", result |-> "ok"]
         /\ UNCHANGED <<manager_id, token, balances, apps, notifications,
                        clock, atApproval, password_hash>>

NextAuth ==
    \/ /\ last = NoRequest
       /\ UNCHANGED sessions
       /\ \E employee_id \in Emp \cup {NULL}, password \in Passwords :
             login(employee_id, password)
    \/ /\ last = NoRequest
       /\ UNCHANGED sessions
       /\ \E actor \in Emp, current \in Passwords, new \in Passwords :
             change_password(actor, current, new)
    \/ /\ last = NoRequest
       /\ UNCHANGED sessions
       /\ \E actor \in Emp, employee_id \in Emp \cup {NULL} :
             delete_employee(actor, employee_id)
    \/ return_response

SpecAuth == Init /\ [][NextAuth]_vars

\* C24: a change-password call with the correct current password succeeds
\* and stores the new password, so that a login of the account (while it is
\* active) with the new password succeeds; a call with a wrong current
\* password fails with IncorrectPassword (HTTP 400) and leaves the stored
\* password unchanged; a login of an active account succeeds exactly with
\* the stored password, so the old one still logs in.
C24_PasswordChange ==
    [][/\ \A actor \in Emp, current \in Passwords, new \in Passwords :
            (/\ last'.op = "change_password"
             /\ validate_password(new)
             /\ change_password(actor, current, new))
            => IF password_hash[actor] = <<"hash", current>>
               THEN /\ last'.result = "ok"
                    /\ password_hash'[actor] = <<"hash", new>>
                    /\ \A e \in Emp \ {actor} :
                         password_hash'[e] = password_hash[e]
               ELSE /\ last'.result = "IncorrectPassword"
                    /\ password_hash' = password_hash
       /\ \A e \in Emp, p \in Passwords :
            (/\ last'.op = "login"
             /\ is_active[e]
             /\ login(e, p))
            => /\ (last'.result = "ok") <=> (password_hash[e] = <<"hash", p>>)
               /\ password_hash' = password_hash
      ]_vars

\* an account whose password has been changed has just logged in
C24_Witness ==
    /\ last = [op |-> "login", result |-> "ok"]
    /\ \E e \in Emp :
          /\ password_hash[e] = <<"hash", "secret2">>
          /\ is_active[e]
          /\ \A o \in Emp \ {e} : ~is_active[o]

-----------------------------------------------------------------------------
(***************************************************************************)
(* Role changes: an admin changes the stored role of an employee while    *)
(* that employee still holds the access token of an earlier login.         *)
(***************************************************************************)

\* employees whose role an admin changes, and the roles given
Promotable == {2}
NewRoles == {MANAGER, EMPLOYEE}

\* PUT /employees/{employee_id} with body {"role": new_role}
\* employee and current_user are one object when the admin updates itself:
\* the role sent then overrides the one taken from the token.
update_employee(actor, employee_id, new_role) ==
    IF employee_id \notin Emp
    THEN Fail("update_employee", "NotFound")
    ELSE IF ~is_admin(actor) /\ actor # employee_id
    THEN Fail("update_employee", "Forbidden")
    ELSE IF ~is_admin(actor)
    THEN \* role and is_active are set to None on the request model and so
         \* written as NULL into NOT NULL columns: the commit fails
         Fail("update_employee", "InternalError")
    ELSE /\ role' = [role EXCEPT ![actor] = token[actor],
                                 ![employee_id] = new_role]
         /\ last' = [op |-> "update_employee", result |-> "ok"]
         /\ UNCHANGED <<manager_id, token, balances, apps, notifications,
                        clock, atApproval>>

NextRoles ==
    \/ Next
    \/ /\ last = NoRequest
       /\ UNCHANGED sessions
       /\ \E employee_id \in Emp : login(employee_id, "secret1")
    \/ /\ last = NoRequest
       /\ UNCHANGED <<password_hash, is_active, sessions>>
       /\ \E actor \in Emp, employee_id \in Promotable, r \in NewRoles :
             update_employee(actor, employee_id, r)

SpecRoles == Init /\ [][NextRoles]_vars

\* C30: no leave operation (submit, edit, approve/reject, cancel) changes
\* the role stored for any employee, also when the caller's token carries a
\* role that differs from the stored one.
C30_RoleNeverWrittenBack ==
    [][last'.op \in {"submit", "edit", "approve", "cancel"}
         => role' = role
      ]_vars


-----------------------------------------------------------------------------
\* Concurrent requests.  Each request has its own database session
\* (Depends(get_db)).  A session reads committed rows when the handler
\* queries them, keeps the changed attributes of the loaded objects in
\* memory and writes them as UPDATE statements at db.commit().  The steps
\* of two requests interleave at these reads and at the commit.

MaxSessions == 2

\* attributes of a request whose handler has not queried the row yet
NotLoaded == [status |-> NONE]

NoRow == [total_allocated |-> 0, used_days |-> 0, remaining_days |-> 0]

\* the requests that have reached their handler all ran to the response
AllDone == \A s \in DOMAIN sessions : sessions[s].pc = "done"

\* submissions are made before the concurrent requests start
submit_before_race ==
    /\ last = NoRequest
    /\ sessions = <<>>
    /\ UNCHANGED <<password_hash, is_active, sessions>>
    /\ \E actor \in Emp, d \in Dates : apply_for_leave(actor, 1, d, d, "a")

\* a request reaches its handler: the dependency has admitted the caller
begin_request(op, actor, application_id, status) ==
    /\ Len(sessions) < MaxSessions
    /\ op = "approve" => get_current_manager_or_admin(actor)
                            /\ validate_status(status)
    /\ sessions' = Append(sessions,
          [op |-> op, actor |-> actor, application_id |-> application_id,
           status |-> status, pc |-> "application",
           application |-> NotLoaded, has_balance |-> FALSE,
           balance |-> NoRow, result |-> NONE])
    /\ UNCHANGED <<role, manager_id, token, balances, apps, notifications,
                   clock, last, atApproval, password_hash, is_active>>

\* db.query(LeaveApplication)...first() and the checks on the loaded row
\* (approve_leave: 404, status; cancel_leave: 404, owner, status)
read_application(s) ==
    LET r == sessions[s]
        id == r.application_id
        done(result) == [r EXCEPT !.pc = "done", !.result = result]
    IN
    /\ r.pc = "application"
    /\ sessions' = [sessions EXCEPT ![s] =
         IF id \notin DOMAIN apps
         THEN done("NotFound")
         ELSE IF r.op = "cancel" /\ ~is_own_application(apps[id], r.actor)
         THEN done("Forbidden")
         ELSE IF r.op = "approve" /\ ~Decidable(apps[id].status)
         THEN done("InvalidStateTransition")
         ELSE IF r.op = "cancel" /\ ~Cancellable(apps[id].status)
         THEN done("InvalidStateTransition")
         ELSE [r EXCEPT
                 !.application = apps[id],
                 !.pc = IF \/ r.op = "approve" /\ r.status = APPROVED
                           \/ r.op = "cancel" /\ apps[id].status = APPROVED
                        THEN "balance" ELSE "commit"]]
    /\ UNCHANGED <<role, manager_id, token, balances, apps, notifications,
                   clock, last, atApproval, password_hash, is_active>>

\* db.query(LeaveBalance)...first(): the row as last committed
read_balance(s) ==
    LET r == sessions[s]
        key == BalanceKey(r.application)
    IN
    /\ r.pc = "balance"
    /\ sessions' = [sessions EXCEPT ![s] =
         [r EXCEPT !.has_balance = HasBalance(key),
                   !.balance = IF HasBalance(key) THEN balances[key]
                               ELSE NoRow,
                   !.pc = "commit"]]
    /\ UNCHANGED <<role, manager_id, token, balances, apps, notifications,
                   clock, last, atApproval, password_hash, is_active>>

\* db.commit(): the attributes assigned by the handler are written; the
\* ledger columns get the values computed from the row the session loaded.
\* atApproval follows the decisions of sequential requests only.
commit(s) ==
    LET r == sessions[s]
        id == r.application_id
        key == BalanceKey(r.application)
    IN
    /\ r.pc = "commit"
    /\ IF r.op = "approve"
       THEN /\ apps' = [apps EXCEPT ![id] =
                 [@ EXCEPT !.status = r.status,
                           !.approved_by = r.actor,
                           !.approved_rejected_on = clock,
                           !.rejection_reason =
                               IF r.status = REJECTED THEN NONE ELSE @]]
            /\ balances' = IF r.status = APPROVED /\ r.has_balance
                           THEN [balances EXCEPT ![key] =
                                   Debit(r.balance, r.application.total_days)]
                           ELSE balances
            /\ Notify(r.application.employee_id,
                      IF r.status = APPROVED
                      THEN "Leave Application Approved"
                      ELSE "Leave Application Rejected", id)
            /\ clock' = clock + 1
       ELSE /\ apps' = [apps EXCEPT ![id].status = CANCELLED]
            /\ balances' = IF r.application.status = APPROVED /\ r.has_balance
                           THEN [balances EXCEPT ![key] =
                                   Credit(r.balance, r.application.total_days)]
                           ELSE balances
            /\ IF manager_id[r.actor] # NULL
               THEN Notify(manager_id[r.actor],
                           "Leave Application Cancelled", id)
               ELSE UNCHANGED notifications
            /\ UNCHANGED clock
    /\ Commit(r.actor)
    /\ sessions' = [sessions EXCEPT ![s] =
                       [r EXCEPT !.pc = "done", !.result = "ok"]]
    /\ UNCHANGED <<manager_id, token, last, atApproval, password_hash,
                   is_active>>

NextRace ==
    \/ submit_before_race
    \/ return_response
    \/ \E actor \in Emp, id \in AppIds, st \in {APPROVED, REJECTED} :
          begin_request("approve", actor, id, st)
    \/ \E actor \in Emp, id \in AppIds :
          begin_request("cancel", actor, id, CANCELLED)
    \/ \E s \in DOMAIN sessions : read_application(s)
    \/ \E s \in DOMAIN sessions : read_balance(s)
    \/ \E s \in DOMAIN sessions : commit(s)

SpecRace == Init /\ [][NextRace]_vars

\* two requests r1, r2 on application id have both been answered, and the
\* application draws on an existing ledger row
Raced(op1, op2, id) ==
    /\ Len(sessions) = 2
    /\ AllDone
    /\ \E a, b \in DOMAIN sessions :
          /\ a # b
          /\ sessions[a].op = op1 /\ sessions[b].op = op2
          /\ sessions[a].application_id = id
          /\ sessions[b].application_id = id
          /\ \A s \in {a, b} :
                sessions[s].op = "approve" => sessions[s].status = APPROVED
    /\ id \in DOMAIN apps
    /\ HasBalance(BalanceKey(apps[id]))

\* C23: when the owner's cancel and an approver's approve of the same
\* Pending application run concurrently, every final state is
\* non-divergent: the balance has been debited by total_days if and only if
\* the final status of the application is Approved.
C23_CancelApproveNonDivergent ==
    \A id \in AppIds :
        Raced("approve", "cancel", id) =>
            LET row == balances[BalanceKey(apps[id])] IN
            /\ row.used_days \in {0, apps[id].total_days}
            /\ row.used_days = apps[id].total_days
                  <=> apps[id].status = APPROVED

\* C28: when two approve requests for the same Pending application run
\* concurrently, the balance is debited by total_days exactly once in every
\* interleaving, never twice.
C28_ApprovedTwiceDebitedOnce ==
    \A id \in AppIds :
        Raced("approve", "approve", id) =>
            balances[BalanceKey(apps[id])].used_days = apps[id].total_days

\* C29: when approvals of two different Pending applications that draw on
\* the same balance row run concurrently, no debit is lost: the final
\* used_days is the initial used_days plus the total_days of both
\* applications, and remaining_days is recomputed from that value.
C29_NoLostDebit ==
    \A i, j \in DOMAIN apps :
        /\ i # j
        /\ BalanceKey(apps[i]) = BalanceKey(apps[j])
        /\ HasBalance(BalanceKey(apps[i]))
        /\ Len(sessions) = 2
        /\ AllDone
        /\ \E a, b \in DOMAIN sessions :
              /\ sessions[a].op = "approve" /\ sessions[b].op = "approve"
              /\ sessions[a].status = APPROVED /\ sessions[b].status = APPROVED
              /\ sessions[a].application_id = i
              /\ sessions[b].application_id = j
        => LET row == balances[BalanceKey(apps[i])] IN
           /\ row.used_days =
                SeedBalances[BalanceKey(apps[i])].used_days
                    + apps[i].total_days + apps[j].total_days
           /\ row.remaining_days = row.total_allocated - row.used_days

=============================================================================
